---- MODULE Spec2Model ----
(***************************************************************************)
(* Model of LAB8/lab8.3.py: first-order unification (unify, unify_var,     *)
(* occurs_check, unify_and_check) driven by the loop of main().            *)
(*                                                                         *)
(* A Python term is a str, a list or a tuple.  It is modelled as a record  *)
(* [k, s, a]: k is the Python type, s the characters of a str, a the       *)
(* elements of a list or tuple (element 1 is Python's x[0]).  Record       *)
(* equality is then Python's ==: a list never equals a tuple or a str.     *)
(*                                                                         *)
(* The recursion of unify/unify_var is modelled by an explicit call stack, *)
(* one frame per Python call, so that a recursion that never ends shows up *)
(* as the interpreter's RecursionError.                                    *)
(***************************************************************************)
EXTENDS Naturals, Sequences, FiniteSets, TLC

VARIABLES
    expr1,      \* first argument of the current unify_and_check call
    expr2,      \* second argument of the current unify_and_check call
    subst,      \* the dict created by the outermost unify call: a sequence
                \* of <<key, value>> pairs in insertion order
    stack,      \* the call stack of unify / unify_var frames
    ret,        \* the value the frame that just returned hands to its caller
    status,     \* "running", "returned" or "raised" for the current call
    exc,        \* the exception that ended the call, "" when none
    out,        \* what unify_and_check returned: <<is_unified, result>>
    round,      \* iteration of main()'s loop: 1, 2
    first       \* outcome of the first iteration, "" during it

vars == <<expr1, expr2, subst, stack, ret, status, exc, out, round, first>>

----------------------------------------------------------------------------
(* Bounds of the model *)

\* Largest number of arguments of a compound term that is enumerated
MaxArgs == 3

\* Frames the interpreter allows on the stack before RecursionError
\* (CPython's default limit is 1000; every terminating call on the
\* enumerated terms needs far fewer frames than this)
RecursionLimit == 14

----------------------------------------------------------------------------
(* Terms *)

Str(s) == [k |-> "str", s |-> s, a |-> <<>>]
List(a) == [k |-> "list", s |-> "", a |-> a]
Tuple(a) == [k |-> "tuple", s |-> "", a |-> a]

\* The strings of the model that str.islower() accepts, and those it does not
LowerNames == {"a", "b", "x", "p", "q", "f", "g"}
UpperNames == {"A", "B"}

\* A variant of islower that takes every alphabetic string for lower case
\* (str.isalpha() in its place)
islower_isalpha(s) == s \in LowerNames \cup UpperNames

\* str.islower() on the strings of the model
islower(s) == s \in LowerNames

\* isinstance(x, str) and x.islower(): the code's test for a variable
IsVariable(t) == t.k = "str" /\ islower(t.s)

\* tuple(x) if isinstance(x, list) else x
TupleOf(t) == IF t.k = "list" THEN Tuple(t.a) ELSE t

\* Whether Python can hash the value: a str can, a list cannot, a tuple can
\* when all its elements can
RECURSIVE Hashable(_)
Hashable(t) ==
    CASE t.k = "str" -> TRUE
      [] t.k = "list" -> FALSE
      [] OTHER -> \A i \in 1..Len(t.a) : Hashable(t.a[i])

\* occurs_check(var, x)
RECURSIVE occurs_check(_, _)
occurs_check(var, x) ==
    IF var = x THEN TRUE
    ELSE IF x.k = "list" THEN \E i \in 1..Len(x.a) : occurs_check(var, x.a[i])
    ELSE FALSE

----------------------------------------------------------------------------
(* The dict subst *)

Keys(s) == {s[i][1] : i \in 1..Len(s)}

\* subst[key]
Lookup(s, key) == s[CHOOSE i \in 1..Len(s) : s[i][1] = key][2]

\* subst[key] = val
SetItem(s, key, val) ==
    IF key \in Keys(s)
    THEN [i \in 1..Len(s) |-> IF s[i][1] = key THEN <<key, val>> ELSE s[i]]
    ELSE Append(s, <<key, val>>)

----------------------------------------------------------------------------
(* What a piece of code does next: call unify or unify_var, return a value *)
(* to its caller, or raise.  s is the dict after the piece has run.        *)

Call(fn, x, y, s) ==
    [op |-> "call", fn |-> fn, x |-> x, y |-> y, val |-> "NONE", exc |-> "", s |-> s]
Return(val, s) ==
    [op |-> "return", fn |-> "", x |-> Str(""), y |-> Str(""), val |-> val,
     exc |-> "", s |-> s]
Raise(e, s) ==
    [op |-> "raise", fn |-> "", x |-> Str(""), y |-> Str(""), val |-> "NONE",
     exc |-> e, s |-> s]

\* A variant of unify_var without the test "var in subst": a bound variable
\* is bound again
unify_var_rebinds(var, x, s) ==
    IF x.k \in {"list", "tuple"} /\ ~Hashable(TupleOf(x))
    THEN Raise("TypeError", s)
    ELSE IF occurs_check(var, x)
    THEN Return("FAILURE", s)
    ELSE Return("SUBST", SetItem(s, var, TupleOf(x)))

\* unify_var(var, x, subst), up to its return or its recursive call.
\* "tuple(x) in subst" hashes tuple(x) first: a list among the elements of x
\* makes that raise TypeError.
unify_var(var, x, s) ==
    IF var \in Keys(s)
    THEN Call("unify", Lookup(s, var), x, s)
    ELSE IF x.k \in {"list", "tuple"} /\ ~Hashable(TupleOf(x))
    THEN Raise("TypeError", s)
    ELSE IF x.k \in {"list", "tuple"} /\ TupleOf(x) \in Keys(s)
    THEN Call("unify", var, Lookup(s, TupleOf(x)), s)
    ELSE IF occurs_check(var, x)
    THEN Return("FAILURE", s)
    ELSE Return("SUBST", SetItem(s, var, TupleOf(x)))

\* unify(x, y, subst), up to its return or its first recursive call.
\* A "call" of unify itself is the first pair of the argument loop.
unify(x, y, s) ==
    IF x = y
    THEN Return("SUBST", s)
    ELSE IF IsVariable(x)
    THEN Call("unify_var", x, y, s)
    ELSE IF IsVariable(y)
    THEN Call("unify_var", y, x, s)
    ELSE IF x.k = "list" /\ y.k = "list"
    THEN IF Len(x.a) # Len(y.a)
         THEN Return("FAILURE", s)
         ELSE IF x.a[1] # y.a[1]
         THEN Return("FAILURE", s)
         ELSE IF Len(x.a) = 1
         THEN Return("SUBST", s)
         ELSE Call("unify", x.a[2], y.a[2], s)
    ELSE Return("FAILURE", s)

\* A variant of the argument loop without the test subst == "FAILURE": the
\* loop goes on after a pair has failed
unify_loop_goes_on(x, y, i, r, s) ==
    IF i < Len(x.a)
    THEN Call("unify", x.a[i + 1], y.a[i + 1], s)
    ELSE Return(r, s)

\* The argument loop of unify after the call for pair i (elements i of x and
\* y) has handed back r: stop on "FAILURE", go on with pair i + 1, or return
\* the dict after the last pair.
unify_loop(x, y, i, r, s) ==
    IF r = "FAILURE"
    THEN Return("FAILURE", s)
    ELSE IF i < Len(x.a)
    THEN Call("unify", x.a[i + 1], y.a[i + 1], s)
    ELSE Return("SUBST", s)

\* unify_and_check's result for the value unify handed back
unify_and_check(r, s) ==
    IF r = "FAILURE" THEN <<FALSE, "None">> ELSE <<TRUE, s>>

----------------------------------------------------------------------------
(* The call stack *)

\* pc: "call" the body has not run yet; "tail" waiting for the call whose
\* value the frame returns as it is; "loop" waiting for the call of pair i.
\* entry is the dict as it was when pair i was started (history only).
Frame(fn, x, y) ==
    [fn |-> fn, x |-> x, y |-> y, pc |-> "call", i |-> 0, entry |-> <<>>]

Top == stack[Len(stack)]
Below == SubSeq(stack, 1, Len(stack) - 1)

\* Carry out outcome o of the top frame; the frame waits in state pc (with
\* loop index i) if o is a call.
Do(o, pc, i) ==
    CASE o.op = "return" ->
            /\ stack' = Below
            /\ ret' = o.val
            /\ subst' = o.s
            /\ UNCHANGED <<status, exc>>
      [] o.op = "raise" ->
            /\ stack' = <<>>
            /\ ret' = "NONE"
            /\ subst' = o.s
            /\ status' = "raised"
            /\ exc' = o.exc
      [] OTHER ->
            IF Len(stack) >= RecursionLimit
            THEN /\ stack' = <<>>
                 /\ ret' = "NONE"
                 /\ subst' = o.s
                 /\ status' = "raised"
                 /\ exc' = "RecursionError"
            ELSE /\ stack' = Append(Below, [Top EXCEPT !.pc = pc, !.i = i,
                                                       !.entry = o.s])
                               \o <<Frame(o.fn, o.x, o.y)>>
                 /\ ret' = "NONE"
                 /\ subst' = o.s
                 /\ UNCHANGED <<status, exc>>

Running == status = "running" /\ stack # <<>>

\* unify is entered
UnifyEnter ==
    /\ Running /\ Top.fn = "unify" /\ Top.pc = "call"
    /\ LET o == unify(Top.x, Top.y, subst)
       IN Do(o, IF o.fn = "unify" THEN "loop" ELSE "tail", 2)
    /\ UNCHANGED <<expr1, expr2, out, round, first>>

\* unify_var is entered
UnifyVarEnter ==
    /\ Running /\ Top.fn = "unify_var" /\ Top.pc = "call"
    /\ Do(unify_var(Top.x, Top.y, subst), "tail", 0)
    /\ UNCHANGED <<expr1, expr2, out, round, first>>

\* "return unify(...)" / "return unify_var(...)": the value is passed on
TailReturn ==
    /\ Running /\ Top.pc = "tail" /\ ret # "NONE"
    /\ Do(Return(ret, subst), "tail", 0)
    /\ UNCHANGED <<expr1, expr2, out, round, first>>

\* "subst = unify(xi, yi, subst)" has returned inside the argument loop
LoopStep ==
    /\ Running /\ Top.pc = "loop" /\ ret # "NONE"
    /\ Do(unify_loop(Top.x, Top.y, Top.i, ret, subst), "loop", Top.i + 1)
    /\ UNCHANGED <<expr1, expr2, out, round, first>>

\* The outermost unify has returned to unify_and_check
CheckReturn ==
    /\ status = "running" /\ stack = <<>> /\ ret # "NONE"
    /\ out' = unify_and_check(ret, subst)
    /\ status' = "returned"
    /\ UNCHANGED <<expr1, expr2, subst, stack, ret, exc, round, first>>

Outcome ==
    IF status = "raised" THEN exc
    ELSE IF out[1] THEN "unified" ELSE "failed"

\* main() reads the next pair of expressions: here the same two, swapped.
\* (After an uncaught exception this is a new run of the program.)
NextRound ==
    /\ round = 1 /\ status # "running"
    /\ round' = 2
    /\ first' = Outcome
    /\ expr1' = expr2
    /\ expr2' = expr1
    /\ subst' = <<>>
    /\ stack' = <<Frame("unify", expr2, expr1)>>
    /\ ret' = "NONE"
    /\ status' = "running"
    /\ exc' = ""
    /\ out' = <<FALSE, "None">>

----------------------------------------------------------------------------
(* The expressions main() is given *)

S(n) == Str(n)
Compound(h, args) == List(<<Str(h)>> \o args)

LeftLeaves == {S("a"), S("b"), S("A")}
RightLeaves == {S("a"), S("b"), S("x"), S("B")}
Strings == {S("a"), S("b"), S("x"), S("A"), S("B")}

Args(n, leaves) == [1..n -> leaves]

\* p(...) with 1..MaxArgs arguments
Flat(leaves) ==
    UNION {{Compound("p", args) : args \in Args(n, leaves)} : n \in 1..MaxArgs}

\* f(l) and f(l, l') and g(l)
Inner ==
    {Compound("f", <<l>>) : l \in {S("x"), S("A")}}
    \cup {Compound("g", <<l>>) : l \in {S("x"), S("A")}}
    \cup {Compound("f", <<l, m>>) : l \in {S("x"), S("B")}, m \in {S("A"), S("B")}}

\* f(g(l)), and p(...) with one or two arguments that are strings or compounds
Nested ==
    {Compound("f", <<t>>) : t \in Inner}
    \cup UNION {{Compound("p", args) :
                    args \in Args(n, Inner \cup {S("x"), S("a"), S("A")})} : n \in 1..2}

Inputs ==
    (Strings \X Strings)
    \cup (Strings \X (Inner \cup Nested))
    \cup (Flat(LeftLeaves) \X Flat(RightLeaves))
    \cup ({Compound("q", <<S("a")>>)} \X Flat(RightLeaves))
    \cup (Nested \X Nested)

Init ==
    /\ \E pair \in Inputs : expr1 = pair[1] /\ expr2 = pair[2]
    /\ subst = <<>>
    /\ stack = <<Frame("unify", expr1, expr2)>>
    /\ ret = "NONE"
    /\ status = "running"
    /\ exc = ""
    /\ out = <<FALSE, "None">>
    /\ round = 1
    /\ first = ""

Next ==
    \/ UnifyEnter
    \/ UnifyVarEnter
    \/ TailReturn
    \/ LoopStep
    \/ CheckReturn
    \/ NextRound

Spec == Init /\ [][Next]_vars

----------------------------------------------------------------------------
(* Notions the properties are stated with *)

Done == status # "running"
Unified == status = "returned" /\ out[1]
Failed == status = "returned" /\ ~out[1]

\* The variables in argument positions of a term
RECURSIVE VarsOf(_)
VarsOf(t) ==
    IF t.k = "str"
    THEN IF IsVariable(t) THEN {t} ELSE {}
    ELSE UNION {VarsOf(t.a[i]) : i \in 2..Len(t.a)}

\* The variables reached from the variables V by following bindings of s
\* one to n times
RECURSIVE ReachN(_, _, _)
ReachN(V, s, n) ==
    IF n = 0 THEN {}
    ELSE LET T == UNION {VarsOf(Lookup(s, key)) : key \in V \cap Keys(s)}
         IN T \cup ReachN(T, s, n - 1)

\* No variable is bound to a term that contains it once bindings are followed
Acyclic(s) == \A key \in Keys(s) : key \notin ReachN({key}, s, Len(s))

\* Rounds of substitution tried when a substitution is applied exhaustively
ApplyRounds == 4

\* One simultaneous application of s to a term (a tuple stands for the list
\* it was made from)
RECURSIVE Apply(_, _)
Apply(t, s) ==
    IF t.k = "str"
    THEN IF t \in Keys(s)
         THEN LET v == Lookup(s, t) IN IF v.k = "tuple" THEN List(v.a) ELSE v
         ELSE t
    ELSE List([i \in 1..Len(t.a) |-> IF i = 1 THEN t.a[1] ELSE Apply(t.a[i], s)])

RECURSIVE ApplyN(_, _, _)
ApplyN(t, s, n) == IF n = 0 THEN t ELSE ApplyN(Apply(t, s), s, n - 1)

\* s is a prefix of t: every binding of s is in t, unchanged, in place
IsPrefix(s, t) == Len(s) <= Len(t) /\ SubSeq(t, 1, Len(s)) = s

\* Whether variable v occurs in an argument position of compound t, at any depth
Contains(t, v) == t.k = "list" /\ v \in VarsOf(t)

----------------------------------------------------------------------------
(* Sanity of the model: a RecursionError is raised only by a recursion     *)
(* that would never end, that is when the bindings form a cycle.           *)
RecursionErrorMeansCycle == exc = "RecursionError" => ~Acyclic(subst)

----------------------------------------------------------------------------
(* The claims *)

\* C1 (termination): every call unify(x, y) started with an empty
\* substitution returns; the recursion through unify_var never runs until
\* the interpreter's stack is exhausted.
C1_Terminates == exc # "RecursionError"

\* C2 (acyclic store): in every state during or after a call, no variable of
\* the store is bound to a term that contains it after the bindings are
\* followed transitively.
C2_AcyclicStore == Acyclic(subst)

\* C3 (soundness): whenever unify succeeds with substitution S, applying S
\* exhaustively to both expressions yields structurally identical terms:
\* after ApplyRounds rounds both are the same term and S changes it no more.
C3_AppliedTermsIdentical ==
    Unified =>
        LET u == ApplyN(expr1, subst, ApplyRounds)
            v == ApplyN(expr2, subst, ApplyRounds)
        IN u = v /\ Apply(u, subst) = u

\* C4 (symmetry of outcome): unify(x, y) succeeds if and only if unify(y, x)
\* succeeds, both started with an empty substitution.
C4_Symmetric ==
    (round = 2 /\ Done) => ((first = "unified") <=> Unified)

\* C5 (failures are values): unify hands a substitution or a failure to its
\* caller; no step of unify, unify_var or occurs_check raises.
C5_NeverRaises == status # "raised"

\* C6 (occurs-check soundness): a variable unified, in either order, with a
\* compound that contains it at any depth ends in a returned failure, with
\* no binding for the variable.
C6_OccursCheckFails ==
    (Done /\ (  (IsVariable(expr1) /\ Contains(expr2, expr1))
             \/ (IsVariable(expr2) /\ Contains(expr1, expr2))))
        => Failed /\ subst = <<>>

\* C7 as stated (atom equality on "a" and "b"): "a" with "a" succeeds with
\* an empty substitution; "a" with "b" fails and creates no binding.
C7_AtomsAB ==
    /\ (Done /\ expr1 = Str("a") /\ expr2 = Str("a")) => (Unified /\ subst = <<>>)
    /\ (Done /\ expr1 = Str("a") /\ expr2 = Str("b")) => (Failed /\ subst = <<>>)

\* C7 as amended (atom equality on the code's atoms, strings that are not all
\* lower case): an atom with itself succeeds with an empty substitution, as
\* does any string with itself; two different atoms fail, the failure
\* coming straight from the outermost unify, and no binding is created.
C7_AtomEquality ==
    /\ (Done /\ expr1.k = "str" /\ expr1 = expr2) => (Unified /\ subst = <<>>)
    /\ (Done /\ expr1.k = "str" /\ expr2.k = "str" /\ expr1 # expr2
             /\ expr1.s \in UpperNames /\ expr2.s \in UpperNames)
          => (Failed /\ subst = <<>>)

\* C7 witness: two different atoms have been unified and the call has failed
C7_Witness ==
    /\ Failed /\ expr1 = Str("A") /\ expr2 = Str("B")

\* C8 (no rebinding, monotone growth): every step of a run leaves the store
\* unchanged or appends one binding for a variable that was no key; no
\* binding is changed or removed.  unify_var entered for a bound variable
\* calls unify on the variable's binding and the other term instead.
C8_NoRebinding ==
    [][round' = round =>
          /\ \/ subst' = subst
             \/ /\ Len(subst') = Len(subst) + 1
                /\ IsPrefix(subst, subst')
                /\ subst'[Len(subst')][1] \notin Keys(subst)
          /\ (Running /\ Top.fn = "unify_var" /\ Top.pc = "call"
                 /\ Top.x \in Keys(subst) /\ Len(stack) < RecursionLimit)
                => /\ subst' = subst
                   /\ Len(stack') = Len(stack) + 1
                   /\ stack'[Len(stack')] =
                         Frame("unify", Lookup(subst, Top.x), Top.y)]_vars

\* C8 witness: a variable that is bound is being unified with another term
\* (unify_var has re-entered unify on its binding) and the store holds two
\* bindings
C8_Witness ==
    /\ Len(subst) = 2
    /\ \E d \in 1..Len(stack) :
          /\ stack[d].fn = "unify_var" /\ stack[d].pc = "tail"
          /\ stack[d].x \in Keys(subst)
          /\ Lookup(subst, stack[d].x) # stack[d].y

\* C9 (dereferenced equality): p(x, x) against p(f(A), f(A)) succeeds with
\* exactly the binding x -> f(A).
C9_BoundCompoundUnifies ==
    (Done /\ expr1 = Compound("p", <<S("x"), S("x")>>)
          /\ expr2 = Compound("p", <<Compound("f", <<S("A")>>),
                                     Compound("f", <<S("A")>>)>>))
        => (Unified /\ subst = <<<<S("x"), Tuple(<<S("f"), S("A")>>)>>>>)

\* C10 as stated (partial commit): when a pair of the argument loop has
\* failed, the store holds exactly what it held when that pair was started
\* (the initial bindings and those of the earlier pairs).
C10_FailingPairBindsNothing ==
    (Running /\ Top.pc = "loop" /\ ret = "FAILURE") => subst = Top.entry

\* C10 as amended (left-to-right threading, partial commit): the argument
\* loop takes the pairs in index order, each starting from the store the one
\* before left; on the first failing pair it returns failure at once, no
\* later pair is started, and the store then holds the bindings it held when
\* the failing pair was started, unchanged, followed only by bindings the
\* failing pair made itself, which happens only when that pair is a pair of
\* compounds.
C10_LeftToRight ==
    [][(Running /\ Top.pc = "loop" /\ ret # "NONE") =>
          IF ret = "FAILURE"
          THEN /\ stack' = Below
               /\ ret' = "FAILURE"
               /\ subst' = subst
               /\ IsPrefix(Top.entry, subst)
               /\ (Top.x.a[Top.i].k # "list" \/ Top.y.a[Top.i].k # "list")
                     => subst = Top.entry
          ELSE IF Top.i < Len(Top.x.a)
          THEN /\ Len(stack') = Len(stack) + 1
               /\ stack'[Len(stack)].i = Top.i + 1
               /\ stack'[Len(stack)].entry = subst
               /\ stack'[Len(stack')] =
                     Frame("unify", Top.x.a[Top.i + 1], Top.y.a[Top.i + 1])
               /\ subst' = subst
          ELSE /\ stack' = Below
               /\ ret' = "SUBST"
               /\ subst' = subst]_vars

\* C10 witness: the outermost argument loop sees its second or a later pair
\* fail, earlier pairs have made bindings, and a later pair is left untried
C10_Witness ==
    /\ Len(stack) = 1 /\ Top.pc = "loop" /\ ret = "FAILURE"
    /\ Top.i >= 3 /\ Top.i < Len(Top.x.a)
    /\ Len(subst) >= 1

====
